---------------------------- MODULE Spec2Model ----------------------------
(***************************************************************************)
(* Model of caikit/core/data_model/dataobject.py: the @dataobject          *)
(* decorator, the scalar type map handed to the converter, the optional    *)
(* field resolver, the class materializer and the oneof-aware __init__.    *)
(*                                                                         *)
(* Every component is a synchronous function of its arguments, so each is  *)
(* checked under its own specification (SpecOneof, SpecOptional, ...)      *)
(* whose actions apply the function to inputs drawn from bounded sets.     *)
(***************************************************************************)
EXTENDS Naturals, Sequences, FiniteSets, TLC

VARIABLES
    \* ---- _make_oneof_init.__init__ ----
    fieldOrder,    \* list(cls.__dataclass_fields__.keys())
    pc,            \* "new": instance allocated, __init__ not run; "done": __init__ returned or raised
    args,          \* positional arguments of the call
    kwargs,        \* keyword arguments of the call, in insertion order: <<name, value>> pairs
    err,           \* "none" | "conflicting" (COR09282193E) | "multiple" (COR59933157E) | "init" (original_init raised)
    errOneof,      \* the oneof named in the raised message ("" when none)
    initCalled,    \* original_init was invoked
    fields,        \* the instance's dataclass fields
    whichSet,      \* the instance has the _WHICH_ONEOF_ATTR attribute
    which,         \* its value: oneof name -> member name
    \* ---- _DataobjectConverter.get_optional_field_names ----
    optPc,         \* "start": entry chosen; "done": the resolver has returned
    entryFields,   \* entry.__dataclass_fields__: field names in declaration order
    entryTypes,    \* field name -> field.type
    entryDefaults, \* keys of entry.__user_defined_defaults__, in insertion order
    optResult,     \* the returned optional_fields list
    \* ---- dataobject / decorator ----
    registry,      \* _AUTO_GEN_PROTO_CLASSES
    closureLive,   \* a decorator returned by dataobject(...) is at hand
    closurePackage,\* its `package` cell
    closureKwargs, \* its `kwargs` cell
    decCls,        \* the class of the last application ("" when none)
    decApplied,    \* the inner decorator ran in the last call
    decResult,     \* "none" | "returned" | "decorator" | "ValueError" | "TypeError" | "AssertionError"
    decValue,      \* the class the last call returned ("" when none)
    decorated,     \* the classes the decorator has returned so far
    applyCount,    \* class -> number of times the decorator ran on it
    \* ---- _dataobject_to_proto ----
    mapPc,         \* "start" | "done"
    callerSupplied,\* the caller passed type_mapping=
    callerMapping, \* the mapping the caller passed
    usedMapping,   \* the type_mapping handed to _DataobjectConverter
    \* ---- _make_data_model_class ----
    descParent,    \* the descriptor tree: message descriptor -> its containing descriptor (0 for the root)
    descEnums,     \* message descriptor -> names of its DESCRIPTOR.enum_types, in order
    rootIsDataObject, \* the class given for the root derives from DataObjectBase
    matPc,         \* "start" | "run" | "done"
    stack,         \* the active calls: [node, cls, i], i the next nested type of the loop
    classes,       \* class id -> [name, proto, attrs]
    built,         \* message descriptor -> classes created for it by _DataBaseMetaClass.__new__
    parsed,        \* classes handed to parse_proto_descriptor
    matResult      \* the class the outermost call returned (0 while running)

oneofVars == <<fieldOrder, pc, args, kwargs, err, errOneof, initCalled, fields, whichSet, which>>

optVars == <<optPc, entryFields, entryTypes, entryDefaults, optResult>>

decVars == <<registry, closureLive, closurePackage, closureKwargs, decCls,
             decApplied, decResult, decValue, decorated, applyCount>>

mapVars == <<mapPc, callerSupplied, callerMapping, usedMapping>>

matVars == <<descParent, descEnums, rootIsDataObject, matPc, stack, classes,
             built, parsed, matResult>>

vars == <<oneofVars, optVars, decVars, mapVars, matVars>>

(***************************************************************************)
(* Bounds                                                                  *)
(***************************************************************************)
MaxKw == 3      \* keyword arguments per call
MaxArgs == 4    \* positional arguments per call (one more than the fields)
MaxFields == 2  \* dataclass fields of a record type given to the resolver
MaxApply == 2   \* applications of the decorator to one class
MaxNodes == 3   \* message descriptors in a descriptor tree

(***************************************************************************)
(* The class the constructor is installed on.  Its dataclass fields are    *)
(* the plain field "x" and the storage slots "g" and "h" of two oneofs;    *)
(* the members of a oneof are keyword names only.                          *)
(***************************************************************************)
Layouts == { <<"g", "x", "h">>, <<"x", "h", "g">> }

\* cls._fields_oneofs_map: oneof name -> list of member field names
oneofs_to_fields == [ g |-> <<"g_a", "g_b">>, h |-> <<"h_a", "h_b">> ]

Oneofs == DOMAIN oneofs_to_fields

Range(s) == { s[i] : i \in DOMAIN s }

\* cls._fields_to_oneof: member field name -> oneof name
fields_to_oneofs ==
    [ f \in UNION { Range(oneofs_to_fields[o]) : o \in Oneofs } |->
        CHOOSE o \in Oneofs : f \in Range(oneofs_to_fields[o]) ]

Members == DOMAIN fields_to_oneofs

KwNames == Members \cup {"g", "h", "x"}
Vals == {"v1", "v2"}
PosVal == "pos"
None == "None"

\* keyword dictionaries: insertion-ordered, keys distinct
KwSeqs ==
    UNION { { s \in [1..n -> KwNames \X Vals] :
                \A i, j \in 1..n : i # j => s[i][1] # s[j][1] } : n \in 0..MaxKw }

ArgSeqs == UNION { [1..n -> {PosVal}] : n \in 0..MaxArgs }

KwKeys(kw) == { kw[i][1] : i \in DOMAIN kw }

\* list.index
IndexOf(seq, x) == (CHOOSE i \in DOMAIN seq : seq[i] = x) - 1

\* dict[key] = value
DictSet(d, k, v) == [ n \in DOMAIN d \cup {k} |-> IF n = k THEN v ELSE d[n] ]

NoFields == [ f \in {} |-> None ]


(***************************************************************************)
(* _make_oneof_init.__init__  (lines 294-336)                              *)
(***************************************************************************)

\* what the call leaves behind when error(...) raises inside the loop:
\* nothing has been written on the instance
Raise(code, oneof_name) ==
    [ err |-> code, errOneof |-> oneof_name, initCalled |-> FALSE,
      fields |-> NoFields, whichSet |-> FALSE, which |-> NoFields ]

\* the comparison off by one: the slot itself is not counted
HasPosValOffByOne(a, oneof_pos_idx) == Len(a) > oneof_pos_idx + 1

\* has_pos_val = len(args) > oneof_pos_idx
HasPosVal(a, oneof_pos_idx) == Len(a) > oneof_pos_idx

\* the sibling members left out of the list
OtherOneofFieldsSlotOnly(oneof_name, field_name) ==
    SelectSeq(<<oneof_name>>, LAMBDA field : field # field_name)

\* other_oneof_fields: [oneof_name] + oneofs_to_fields[oneof_name], minus field_name
OtherOneofFields(oneof_name, field_name) ==
    SelectSeq(<<oneof_name>> \o oneofs_to_fields[oneof_name],
              LAMBDA field : field # field_name)

\* any(field in kwargs for field in other_oneof_fields)
AnyInKwargs(kw, other_oneof_fields) ==
    \E i \in DOMAIN other_oneof_fields : other_oneof_fields[i] \in KwKeys(kw)

\* key and value swapped
RecordWhichSwapped(which_oneof, oneof_name, field_name) ==
    DictSet(which_oneof, field_name, oneof_name)

\* which_oneof[oneof_name] = field_name
RecordWhich(which_oneof, oneof_name, field_name) ==
    DictSet(which_oneof, oneof_name, field_name)

\* new_kwargs[oneof_name] = val
RouteToSlot(new_kwargs, oneof_name, val) == DictSet(new_kwargs, oneof_name, val)

KwVal(kw, name) == kw[CHOOSE i \in DOMAIN kw : kw[i][1] = name][2]

\* for kwarg in to_remove: del kwargs[kwarg]; kwargs.update(new_kwargs)
RewriteKwargs(kw, to_remove, new_kwargs) ==
    [ n \in (KwKeys(kw) \ Range(to_remove)) \cup DOMAIN new_kwargs |->
        IF n \in DOMAIN new_kwargs THEN new_kwargs[n] ELSE KwVal(kw, n) ]

\* original_init: the dataclass-generated __init__ the wrapper delegates to.
\* Positional arguments bind to the fields in declaration order, keywords by
\* name, every other field takes its None default; binding errors (too many
\* positionals, a keyword that is no field, a field given twice) raise
\* TypeError before any field is assigned.
original_init(order, a, kw) ==
    IF \/ Len(a) > Len(order)
       \/ \E n \in DOMAIN kw : n \notin Range(order)
       \/ \E n \in DOMAIN kw : IndexOf(order, n) < Len(a)
    THEN [ ok |-> FALSE, fields |-> NoFields ]
    ELSE [ ok |-> TRUE,
           fields |-> [ f \in Range(order) |->
                          IF IndexOf(order, f) < Len(a) THEN a[IndexOf(order, f) + 1]
                          ELSE IF f \in DOMAIN kw THEN kw[f]
                          ELSE None ] ]

\* lines 331-336: rewrite kwargs, delegate, then record the discriminants
FinishInit(order, a, kw, new_kwargs, to_remove, which_oneof) ==
    LET r == original_init(order, a, RewriteKwargs(kw, to_remove, new_kwargs))
    IN  IF r.ok
        THEN [ err |-> "none", errOneof |-> "", initCalled |-> TRUE,
               fields |-> r.fields, whichSet |-> TRUE, which |-> which_oneof ]
        ELSE [ err |-> "init", errOneof |-> "", initCalled |-> TRUE,
               fields |-> NoFields, whichSet |-> FALSE, which |-> NoFields ]

\* lines 298-329: the loop over kwargs.items(), from its i-th item on
RECURSIVE OneofLoop(_, _, _, _, _, _, _)
OneofLoop(i, order, a, kw, new_kwargs, to_remove, which_oneof) ==
    IF i > Len(kw)
    THEN FinishInit(order, a, kw, new_kwargs, to_remove, which_oneof)
    ELSE LET field_name == kw[i][1]
             val == kw[i][2]
         IN  IF field_name \in DOMAIN fields_to_oneofs
             THEN LET oneof_name == fields_to_oneofs[field_name]
                      oneof_pos_idx == IndexOf(order, oneof_name)
                  IN  IF HasPosVal(a, oneof_pos_idx)
                      THEN Raise("conflicting", oneof_name)
                      ELSE IF AnyInKwargs(kw, OtherOneofFields(oneof_name, field_name))
                      THEN Raise("multiple", oneof_name)
                      ELSE OneofLoop(i + 1, order, a, kw,
                                     RouteToSlot(new_kwargs, oneof_name, val),
                                     Append(to_remove, field_name),
                                     RecordWhich(which_oneof, oneof_name, field_name))
             ELSE OneofLoop(i + 1, order, a, kw, new_kwargs, to_remove, which_oneof)

\* the conflict checks made only after delegating to original_init
OneofInitCheckLate(order, a, kw) ==
    LET r == OneofLoop(1, order, a, kw, NoFields, <<>>, NoFields)
        d == original_init(order, a, [ n \in KwKeys(kw) \cap Range(order) |-> KwVal(kw, n) ])
    IN  IF r.err \in {"conflicting", "multiple"}
        THEN [ r EXCEPT !.initCalled = TRUE, !.fields = d.fields ]
        ELSE r

OneofInit(order, a, kw) == OneofLoop(1, order, a, kw, NoFields, <<>>, NoFields)

\* cls(*a, **kw): __init__ runs on the freshly allocated instance
Construct ==
    /\ pc = "new"
    /\ \E a \in ArgSeqs, kw \in KwSeqs :
         LET r == OneofInit(fieldOrder, a, kw)
         IN  /\ args' = a
             /\ kwargs' = kw
             /\ err' = r.err
             /\ errOneof' = r.errOneof
             /\ initCalled' = r.initCalled
             /\ fields' = r.fields
             /\ whichSet' = r.whichSet
             /\ which' = r.which
    /\ pc' = "done"
    /\ UNCHANGED <<fieldOrder, optVars, decVars, mapVars, matVars>>

\* object.__new__: the next instance, nothing written on it yet
NewInstance ==
    /\ pc = "done"
    /\ pc' = "new"
    /\ args' = <<>>
    /\ kwargs' = <<>>
    /\ err' = "none"
    /\ errOneof' = ""
    /\ initCalled' = FALSE
    /\ fields' = NoFields
    /\ whichSet' = FALSE
    /\ which' = NoFields
    /\ UNCHANGED <<fieldOrder, optVars, decVars, mapVars, matVars>>

InitOneof ==
    /\ fieldOrder \in Layouts
    /\ pc = "new"
    /\ args = <<>>
    /\ kwargs = <<>>
    /\ err = "none"
    /\ errOneof = ""
    /\ initCalled = FALSE
    /\ fields = NoFields
    /\ whichSet = FALSE
    /\ which = NoFields

\* the constructor component at rest
OneofParked == InitOneof /\ fieldOrder = <<"g", "x", "h">>

NextOneof == Construct \/ NewInstance



(***************************************************************************)
(* _DataobjectConverter.get_optional_field_names  (lines 216-234)          *)
(*                                                                         *)
(* A field type is what get_origin/get_args see of it.  A Union annotation *)
(* with two or more alternatives besides None is what the converter turns  *)
(* into a oneof: such a field is the storage slot of a union group.        *)
(***************************************************************************)
T_int == [ origin |-> "none", args |-> {} ]
T_OptionalInt == [ origin |-> "Union", args |-> {"int", "NoneType"} ]
T_UnionIntStr == [ origin |-> "Union", args |-> {"int", "str"} ]
T_OptionalUnionIntStr == [ origin |-> "Union", args |-> {"int", "str", "NoneType"} ]

FieldTypes == { T_int, T_OptionalInt, T_UnionIntStr, T_OptionalUnionIntStr }

FieldNames == {"a", "b", "c"}

\* sequences without repetition over S, of length at most n
DistinctSeqs(S, n) ==
    UNION { { q \in [1..k -> S] : \A i, j \in 1..k : i # j => q[i] # q[j] } : k \in 0..n }

\* the field is the storage slot of a union group
IsUnionField(t) == t.origin = "Union" /\ Cardinality(t.args \ {"NoneType"}) >= 2

\* get_origin(entry) is never Union: the function always falls through
is_python_optional_never(t) == "None"

\* _is_python_optional: True/False for a Union, an implicit None otherwise
is_python_optional(t) ==
    IF t.origin = "Union"
    THEN (IF "NoneType" \in t.args THEN "True" ELSE "False")
    ELSE "None"

\* the loop of lines 221-226 from the i-th dataclass field on
RECURSIVE OptionalLoop(_, _, _, _)
OptionalLoop(i, names, types, optional_fields) ==
    IF i > Len(names)
    THEN optional_fields
    ELSE LET field_name == names[i]
         IN  IF /\ field_name \notin Range(optional_fields)
                /\ is_python_optional(types[field_name]) # "None"
             THEN OptionalLoop(i + 1, names, types, Append(optional_fields, field_name))
             ELSE OptionalLoop(i + 1, names, types, optional_fields)

\* optional_fields = list(getattr(entry, _USER_DEFINED_DEFAULTS, {})); loop; return
get_optional_field_names(names, types, defaults) ==
    OptionalLoop(1, names, types, defaults)

ResolveOptional ==
    /\ optPc = "start"
    /\ optResult' = get_optional_field_names(entryFields, entryTypes, entryDefaults)
    /\ optPc' = "done"
    /\ UNCHANGED <<entryFields, entryTypes, entryDefaults, oneofVars, decVars, mapVars, matVars>>

InitOptional ==
    /\ optPc = "start"
    /\ entryFields \in DistinctSeqs(FieldNames, MaxFields)
    /\ entryTypes \in [Range(entryFields) -> FieldTypes]
    /\ entryDefaults \in DistinctSeqs(Range(entryFields), MaxFields)
    /\ optResult = <<>>

OptionalParked ==
    /\ optPc = "start"
    /\ entryFields = <<>>
    /\ entryTypes = NoFields
    /\ entryDefaults = <<>>
    /\ optResult = <<>>

NextOptional == ResolveOptional

(***************************************************************************)
(* dataobject and its inner decorator  (lines 78-119)                      *)
(***************************************************************************)
CAIKIT_DATA_MODEL == "caikit_data_model"

\* candidate classes and what they derive from
Candidates == {"Rec", "Enum", "Plain", "Legacy"}

Bases ==
    [ Rec |-> "DataObjectBase", Enum |-> "Enum", Plain |-> "object", Legacy |-> "DataBase" ]

\* keyword dictionaries given to dataobject(...)
DecKwargs == { NoFields, [ package |-> "my.pkg" ], [ name |-> "Other" ] }

\* positional arguments of dataobject(...) that are not a class
DecArgs == { <<>>, <<"pos.pkg">> }

\* only record types pass; enumerations are turned away
issubclass_record_only(cls) == Bases[cls] = "DataObjectBase"

\* issubclass(cls, (DataObjectBase, Enum))
issubclass_ok(cls) == Bases[cls] \in {"DataObjectBase", "Enum"}

\* the decorator also files the class in the registry
registry_appended(reg, cls) == Append(reg, cls)

\* the decorator body leaves _AUTO_GEN_PROTO_CLASSES as it is
registry_after_decorator(reg, cls) == reg

\* dict.setdefault
SetDefault(d, k, v) == IF k \in DOMAIN d THEN d ELSE DictSet(d, k, v)

\* decorator(cls) with the closure cells package and kw: lines 91-104
decorator(cls, package, kw, reg) ==
    IF ~issubclass_ok(cls)
    THEN [ result |-> "ValueError", value |-> "", kwargs |-> kw, registry |-> reg ]
    ELSE [ result |-> "returned", value |-> cls,
           kwargs |-> SetDefault(kw, "package", package),
           registry |-> registry_after_decorator(reg, cls) ]

\* dataobject(cls, **kw): lines 107-110
DataobjectBare ==
    \E cls \in Candidates, kw \in DecKwargs :
        /\ applyCount[cls] < MaxApply
        /\ decCls' = cls
        /\ IF kw # NoFields
           THEN /\ decResult' = "AssertionError"
                /\ decValue' = ""
                /\ decApplied' = FALSE
                /\ UNCHANGED <<registry, decorated, applyCount>>
           ELSE LET r == decorator(cls, CAIKIT_DATA_MODEL, kw, registry)
                IN  /\ decResult' = r.result
                    /\ decValue' = r.value
                    /\ decApplied' = TRUE
                    /\ registry' = r.registry
                    /\ decorated' = IF r.result = "returned"
                                    THEN decorated \cup {cls} ELSE decorated
                    /\ applyCount' = [ applyCount EXCEPT ![cls] = @ + 1 ]
        /\ UNCHANGED <<closureLive, closurePackage, closureKwargs>>
        /\ UNCHANGED <<oneofVars, optVars, mapVars, matVars>>

\* dataobject(*a, **kw) with no class first: lines 112-119
DataobjectCall ==
    \E a \in DecArgs, kw \in DecKwargs :
        /\ decCls' = ""
        /\ decValue' = ""
        /\ decApplied' = FALSE
        /\ IF a # <<>> /\ "package" \in DOMAIN kw
           THEN /\ decResult' = "TypeError"
                /\ UNCHANGED <<closureLive, closurePackage, closureKwargs>>
           ELSE /\ decResult' = "decorator"
                /\ closureLive' = TRUE
                /\ closurePackage' = IF a # <<>> THEN a[1]
                                     ELSE IF "package" \in DOMAIN kw THEN kw["package"]
                                     ELSE CAIKIT_DATA_MODEL
                /\ closureKwargs' = kw
        /\ UNCHANGED <<registry, decorated, applyCount>>
        /\ UNCHANGED <<oneofVars, optVars, mapVars, matVars>>

\* the decorator dataobject(...) returned, applied to a class
ApplyDecorator ==
    /\ closureLive
    /\ \E cls \in Candidates :
        /\ applyCount[cls] < MaxApply
        /\ LET r == decorator(cls, closurePackage, closureKwargs, registry)
           IN  /\ decCls' = cls
               /\ decResult' = r.result
               /\ decValue' = r.value
               /\ decApplied' = TRUE
               /\ closureKwargs' = r.kwargs
               /\ registry' = r.registry
               /\ decorated' = IF r.result = "returned"
                               THEN decorated \cup {cls} ELSE decorated
               /\ applyCount' = [ applyCount EXCEPT ![cls] = @ + 1 ]
    /\ UNCHANGED <<closureLive, closurePackage>>
    /\ UNCHANGED <<oneofVars, optVars, mapVars, matVars>>

InitDecorator ==
    /\ registry = <<>>
    /\ closureLive = FALSE
    /\ closurePackage = ""
    /\ closureKwargs = NoFields
    /\ decCls = ""
    /\ decApplied = FALSE
    /\ decResult = "none"
    /\ decValue = ""
    /\ decorated = {}
    /\ applyCount = [ c \in Candidates |-> 0 ]

NextDecorator == DataobjectBare \/ DataobjectCall \/ ApplyDecorator

(***************************************************************************)
(* The scalar type map  (lines 65-74, 185-187)                             *)
(***************************************************************************)
\* py_to_proto's PY_TO_PROTO_TYPES
PY_TO_PROTO_TYPES ==
    [ int |-> "TYPE_INT64", str |-> "TYPE_STRING" ]

\* the entries the dict literal lists before **PY_TO_PROTO_TYPES
LOCAL_ENTRIES ==
    [ JsonDict |-> "Struct", np_int32 |-> "TYPE_INT32" ]

\* { **first, **second }: the later entry wins
DictMerge(first, second) ==
    [ k \in DOMAIN first \cup DOMAIN second |->
        IF k \in DOMAIN second THEN second[k] ELSE first[k] ]

DATAOBJECT_PY_TO_PROTO_TYPES == DictMerge(LOCAL_ENTRIES, PY_TO_PROTO_TYPES)

ScalarTypes == {"int", "np_int32", "JsonDict", "Custom"}
WireKinds == {"TYPE_INT64", "TYPE_STRING", "TYPE_BYTES"}

\* every mapping a caller can pass as type_mapping=
CallerMappings ==
    UNION { [D -> WireKinds] : D \in SUBSET ScalarTypes }

\* kwargs.setdefault("type_mapping", DATAOBJECT_PY_TO_PROTO_TYPES)
type_mapping_used(supplied, mapping) ==
    IF supplied THEN mapping ELSE DATAOBJECT_PY_TO_PROTO_TYPES

\* _dataobject_to_proto(*args, **kwargs)
DataobjectToProto ==
    /\ mapPc = "start"
    /\ usedMapping' = type_mapping_used(callerSupplied, callerMapping)
    /\ mapPc' = "done"
    /\ UNCHANGED <<callerSupplied, callerMapping>>
    /\ UNCHANGED <<oneofVars, optVars, decVars, matVars>>

InitTypeMap ==
    /\ mapPc = "start"
    /\ callerSupplied \in BOOLEAN
    /\ callerMapping \in CallerMappings
    /\ (~callerSupplied) => callerMapping = NoFields
    /\ usedMapping = NoFields

TypeMapParked ==
    /\ mapPc = "start"
    /\ callerSupplied = FALSE
    /\ callerMapping = NoFields
    /\ usedMapping = NoFields

NextTypeMap == DataobjectToProto

(***************************************************************************)
(* _make_data_model_class  (lines 255-283)                                 *)
(*                                                                         *)
(* A descriptor tree is the containment tree of a generated proto class:   *)
(* message descriptor 1 is the root and every other descriptor m is one of *)
(* the nested_types of descParent[m].  Each call is a stack frame; a step  *)
(* is one recursive call or one return.                                    *)
(***************************************************************************)
MsgNames == <<"Root", "Alpha", "Beta", "Gamma", "Delta", "Epsilon">>

EnumLists == { <<>>, <<"Kind">>, <<"Kind", "Mode">> }

\* descriptor.name
NameOf(node) == MsgNames[node]

Nodes == DOMAIN descParent

\* the elements of a finite set of numbers, ascending
RECURSIVE Ascending(_)
Ascending(S) ==
    IF S = {} THEN <<>>
    ELSE LET lo == CHOOSE x \in S : \A y \in S : x <= y
         IN  <<lo>> \o Ascending(S \ {lo})

\* proto_class.DESCRIPTOR.nested_types
nested_types(node) == Ascending({ m \in Nodes : descParent[m] = node })

\* the loop never moves past the first nested type
nested_proto_class_first(node, i) == nested_types(node)[1]

\* getattr(proto_class, nested_message_name) for the i-th nested descriptor
nested_proto_class(node, i) == nested_types(node)[i]

\* getattr(enums, nested_enum_descriptor.name)
enums_getattr(name) == [ kind |-> "enum", id |-> 0, name |-> name ]

ClassRef(c) == [ kind |-> "class", id |-> c, name |-> "" ]

\* lines 276-281: setattr(cls, name, getattr(enums, name)) for every enum type
AttachEnums(attrs, node) ==
    [ n \in DOMAIN attrs \cup Range(descEnums[node]) |->
        IF n \in Range(descEnums[node]) THEN enums_getattr(n) ELSE attrs[n] ]

Top == stack[Len(stack)]

\* the outermost call begins: lines 256-257
EnterRoot ==
    /\ matPc = "start"
    /\ parsed' = IF rootIsDataObject THEN {1} ELSE {}
    /\ stack' = << [ node |-> 1, cls |-> 1, i |-> 1 ] >>
    /\ matPc' = "run"
    /\ UNCHANGED <<descParent, descEnums, rootIsDataObject, classes, built, matResult>>
    /\ UNCHANGED <<oneofVars, optVars, decVars, mapVars>>

\* lines 260-274: the next nested type gets a new class and a recursive call
\* (the new class derives from DataBase only, so line 257 is skipped for it)
MakeNested ==
    /\ matPc = "run"
    /\ Top.i <= Len(nested_types(Top.node))
    /\ LET child == nested_proto_class(Top.node, Top.i)
           c == Cardinality(DOMAIN classes) + 1
       IN  /\ classes' = [ k \in DOMAIN classes \cup {c} |->
                             IF k = c
                             THEN [ name |-> NameOf(nested_types(Top.node)[Top.i]),
                                    proto |-> child, attrs |-> NoFields ]
                             ELSE classes[k] ]
           /\ built' = [ built EXCEPT ![child] = @ + 1 ]
           /\ stack' = Append(stack, [ node |-> child, cls |-> c, i |-> 1 ])
    /\ UNCHANGED <<descParent, descEnums, rootIsDataObject, matPc, parsed, matResult>>
    /\ UNCHANGED <<oneofVars, optVars, decVars, mapVars>>

\* lines 276-283 and, in the caller, the setattr of lines 263-275
ReturnClass ==
    /\ matPc = "run"
    /\ Top.i > Len(nested_types(Top.node))
    /\ LET f == Top
           withEnums == [ classes EXCEPT ![f.cls].attrs = AttachEnums(@, f.node) ]
           rest == SubSeq(stack, 1, Len(stack) - 1)
       IN  IF rest = <<>>
           THEN /\ classes' = withEnums
                /\ stack' = rest
                /\ matPc' = "done"
                /\ matResult' = f.cls
           ELSE LET p == rest[Len(rest)]
                    nested_message_name == NameOf(nested_types(p.node)[p.i])
                IN  /\ classes' = [ withEnums EXCEPT ![p.cls].attrs =
                                      DictSet(@, nested_message_name, ClassRef(f.cls)) ]
                    /\ stack' = [ rest EXCEPT ![Len(rest)].i = @ + 1 ]
                    /\ UNCHANGED <<matPc, matResult>>
    /\ UNCHANGED <<descParent, descEnums, rootIsDataObject, built, parsed>>
    /\ UNCHANGED <<oneofVars, optVars, decVars, mapVars>>

\* every descriptor tree of at most MaxNodes message descriptors
DescriptorTrees ==
    UNION { { t \in [1..n -> 0..(n - 1)] :
                /\ t[1] = 0
                /\ \A m \in 2..n : 1 <= t[m] /\ t[m] < m } : n \in 1..MaxNodes }

InitMaterialize ==
    /\ descParent \in DescriptorTrees
    /\ descEnums \in [DOMAIN descParent -> EnumLists]
    /\ rootIsDataObject \in BOOLEAN
    /\ matPc = "start"
    /\ stack = <<>>
    /\ classes = [ k \in {1} |-> [ name |-> NameOf(1), proto |-> 1, attrs |-> NoFields ] ]
    /\ built = [ m \in DOMAIN descParent |-> 0 ]
    /\ parsed = {}
    /\ matResult = 0

MaterializeParked ==
    /\ descParent = [ m \in {1} |-> 0 ]
    /\ descEnums = [ m \in {1} |-> <<>> ]
    /\ rootIsDataObject = TRUE
    /\ matPc = "start"
    /\ stack = <<>>
    /\ classes = [ k \in {1} |-> [ name |-> NameOf(1), proto |-> 1, attrs |-> NoFields ] ]
    /\ built = [ m \in {1} |-> 0 ]
    /\ parsed = {}
    /\ matResult = 0

NextMaterialize == EnterRoot \/ MakeNested \/ ReturnClass

(***************************************************************************)
(* Specifications: one per component, the others at rest                   *)
(***************************************************************************)
StartOneof ==
    InitOneof /\ OptionalParked /\ InitDecorator /\ TypeMapParked /\ MaterializeParked

SpecOneof == StartOneof /\ [][NextOneof]_vars

StartOptional ==
    InitOptional /\ OneofParked /\ InitDecorator /\ TypeMapParked /\ MaterializeParked

SpecOptional == StartOptional /\ [][NextOptional]_vars

StartDecorator ==
    InitDecorator /\ OneofParked /\ OptionalParked /\ TypeMapParked /\ MaterializeParked

SpecDecorator == StartDecorator /\ [][NextDecorator]_vars

StartTypeMap ==
    InitTypeMap /\ OneofParked /\ OptionalParked /\ InitDecorator /\ MaterializeParked

SpecTypeMap == StartTypeMap /\ [][NextTypeMap]_vars

StartMaterialize ==
    InitMaterialize /\ OneofParked /\ OptionalParked /\ InitDecorator /\ TypeMapParked

\* a call that has begun runs to its return: the function is synchronous and
\* nothing in it waits
SpecMaterialize ==
    StartMaterialize /\ [][NextMaterialize]_vars /\ WF_vars(NextMaterialize)

(***************************************************************************)
(* Properties of the oneof constructor (SpecOneof)                         *)
(***************************************************************************)

\* the members of oneof G that the call's keywords name
MembersNamed(G) == KwKeys(kwargs) \cap Range(oneofs_to_fields[G])

\* a positional argument occupies G's slot
SlotTaken(G) == Len(args) > IndexOf(fieldOrder, G)

\* position in kwargs of the first keyword naming a member of G
FirstMemberPos(G) ==
    CHOOSE i \in DOMAIN kwargs :
        /\ kwargs[i][1] \in Range(oneofs_to_fields[G])
        /\ \A j \in 1..(i - 1) : kwargs[j][1] \notin Range(oneofs_to_fields[G])

\* C1 as stated: a call whose keywords name two or more members of one union
\* group always fails with the 'multiple values for union group' error.
C1_MultipleAlwaysMultiple ==
    pc = "done" =>
        \A G \in Oneofs : Cardinality(MembersNamed(G)) >= 2 => err = "multiple"

\* C1 amended: a call whose keywords name two or more members of one union
\* group never succeeds and never reaches the field initializer: it fails with
\* a union conflict, which is 'multiple values' whenever no positional argument
\* occupies the slot of a group named by a member keyword.
C1_MultipleNeverSucceeds ==
    pc = "done" =>
        \A G \in Oneofs : Cardinality(MembersNamed(G)) >= 2 =>
            /\ err \in {"conflicting", "multiple"}
            /\ (\A H \in Oneofs : MembersNamed(H) # {} => ~SlotTaken(H))
                   => err = "multiple"

C1_Witness ==
    /\ pc = "done"
    /\ Cardinality(MembersNamed("g")) >= 2
    /\ err = "multiple"
    /\ errOneof = "g"

\* C2 as stated: a member keyword of G together with more than i positional
\* arguments always fails with 'conflicting union args', and that error is
\* raised for G only when more than i positional arguments are passed.
C2_PositionalAlwaysConflicting ==
    pc = "done" =>
        /\ \A G \in Oneofs : (MembersNamed(G) # {} /\ SlotTaken(G)) => err = "conflicting"
        /\ err = "conflicting" => SlotTaken(errOneof)

\* C2 amended: such a call always fails with a union conflict.  It is
\* 'conflicting union args' unless an earlier keyword names a member of another
\* group whose slot is free and which a second keyword also names, and then it
\* is 'multiple values' for that other group.  'conflicting union args' is
\* raised for a group only when a positional argument occupies its slot.
C2_PositionalAlwaysRejected ==
    pc = "done" =>
        /\ \A G \in Oneofs : (MembersNamed(G) # {} /\ SlotTaken(G)) =>
              /\ err \in {"conflicting", "multiple"}
              /\ err = "multiple" =>
                    /\ errOneof # G
                    /\ ~SlotTaken(errOneof)
                    /\ MembersNamed(errOneof) # {}
                    /\ Cardinality(KwKeys(kwargs) \cap
                          ({errOneof} \cup Range(oneofs_to_fields[errOneof]))) >= 2
                    /\ FirstMemberPos(errOneof) < FirstMemberPos(G)
        /\ err = "conflicting" => (SlotTaken(errOneof) /\ MembersNamed(errOneof) # {})

C2_Witness ==
    /\ pc = "done"
    /\ MembersNamed("h") # {}
    /\ SlotTaken("h")
    /\ err = "conflicting"
    /\ errOneof = "h"

\* C3: after a successful construction, a group named by exactly one member
\* keyword has that keyword's value in its storage slot and that member as its
\* discriminant; a group named by no member keyword has no discriminant.
C3_DiscriminantRecorded ==
    (pc = "done" /\ err = "none") =>
        /\ whichSet
        /\ DOMAIN which \subseteq Oneofs
        /\ \A G \in DOMAIN which : MembersNamed(G) = {which[G]}
        /\ \A G \in Oneofs :
              /\ Cardinality(MembersNamed(G)) = 1 =>
                    LET m == CHOOSE x \in MembersNamed(G) : TRUE
                    IN  /\ G \in DOMAIN which
                        /\ which[G] = m
                        /\ fields[G] = KwVal(kwargs, m)
              /\ MembersNamed(G) = {} => G \notin DOMAIN which

C3_Witness ==
    /\ pc = "done"
    /\ err = "none"
    /\ MembersNamed("g") = {"g_b"}
    /\ MembersNamed("h") = {}
    /\ which = [ g |-> "g_b" ]
    /\ fields["g"] = "v2"

\* C10: when the call is rejected for a union conflict, the field initializer
\* has not been invoked and neither a field nor the discriminant record has
\* been written on the instance.
C10_RejectedBeforeAnyWrite ==
    (pc = "done" /\ err \in {"conflicting", "multiple"}) =>
        /\ ~initCalled
        /\ ~whichSet
        /\ fields = NoFields

C10_Witness ==
    /\ pc = "done"
    /\ err \in {"conflicting", "multiple"}
    /\ Len(kwargs) >= 2
    /\ Len(args) >= 1
    /\ ~initCalled


(***************************************************************************)
(* Properties of the optional-field resolver (SpecOptional)                *)
(***************************************************************************)

\* the declared type is a nullable wrapper: a Union containing None
Nullable(t) == t.origin = "Union" /\ "NoneType" \in t.args

\* C4: a field that belongs to a union group is never returned by
\* get_optional_field_names.
C4_UnionFieldNeverOptional ==
    optPc = "done" =>
        \A f \in Range(entryFields) :
            IsUnionField(entryTypes[f]) => f \notin Range(optResult)

\* C5: a non-union field is listed iff it has a user-supplied default or its
\* declared type is a nullable wrapper, and no name is listed twice.
C5_OptionalIffDefaultOrNullable ==
    optPc = "done" =>
        /\ \A f \in Range(entryFields) :
              ~IsUnionField(entryTypes[f]) =>
                  (f \in Range(optResult) <=>
                      (f \in Range(entryDefaults) \/ Nullable(entryTypes[f])))
        /\ \A i, j \in DOMAIN optResult : i # j => optResult[i] # optResult[j]

C5_Witness ==
    /\ optPc = "done"
    /\ entryFields = <<"a", "b">>
    /\ entryTypes = [ a |-> T_int, b |-> T_OptionalInt ]
    /\ entryDefaults = <<>>
    /\ optResult = <<"b">>

(***************************************************************************)
(* Properties of the decorator (SpecDecorator)                             *)
(***************************************************************************)

\* C6: the decorator applied to a class that is neither a DataObjectBase
\* subclass nor an Enum fails with the value-check error and returns nothing;
\* applied to a class that is one of the two it returns that class.
C6_DecoratorValidates ==
    decApplied =>
        IF Bases[decCls] \in {"DataObjectBase", "Enum"}
        THEN decResult = "returned" /\ decValue = decCls /\ decCls \in decorated
        ELSE decResult = "ValueError" /\ decValue = "" /\ decCls \notin decorated

C6_Witness ==
    /\ decApplied
    /\ decCls = "Legacy"
    /\ decResult = "ValueError"
    /\ "Enum" \in decorated

\* number of times x occurs in the list
Count(seq, x) == Cardinality({ i \in DOMAIN seq : seq[i] = x })

\* C9: re-applying the decorator returns the same class, and no sequence of
\* applications leaves a class more than once in the registry.
C9_DecoratorIdempotent ==
    /\ \A c \in Candidates : Count(registry, c) <= 1
    /\ (decApplied /\ decResult = "returned") => decValue = decCls
    /\ \A c \in Candidates :
          (applyCount[c] >= 2 /\ c \in decorated) => Count(registry, c) <= 1

C9_Witness ==
    /\ applyCount["Rec"] >= 2
    /\ decApplied
    /\ decCls = "Rec"
    /\ decResult = "returned"
    /\ decValue = "Rec"

(***************************************************************************)
(* Properties of the scalar type map (SpecTypeMap)                         *)
(***************************************************************************)

\* C7: the map the converter uses is the caller's mapping laid over the
\* built-in one: caller entries win, and every built-in entry the caller did
\* not override is still there.
C7_TypeMapIsOverlay ==
    (mapPc = "done" /\ callerSupplied) =>
        /\ \A t \in DOMAIN callerMapping :
              t \in DOMAIN usedMapping /\ usedMapping[t] = callerMapping[t]
        /\ \A t \in DOMAIN DATAOBJECT_PY_TO_PROTO_TYPES \ DOMAIN callerMapping :
              /\ t \in DOMAIN usedMapping
              /\ usedMapping[t] = DATAOBJECT_PY_TO_PROTO_TYPES[t]

(***************************************************************************)
(* Properties of the class materializer (SpecMaterialize)                  *)
(***************************************************************************)

\* the class made for (or given as) a message descriptor
ClassOf(node) == CHOOSE k \in DOMAIN classes : classes[k].proto = node

\* the materialized class of a descriptor carries exactly its nested records
\* and nested enums, each under the descriptor's own name
MirrorsNesting(node) ==
    LET a == classes[ClassOf(node)].attrs
        kids == { m \in Nodes : descParent[m] = node }
    IN  /\ DOMAIN a = { NameOf(m) : m \in kids } \cup Range(descEnums[node])
        /\ \A m \in kids :
              /\ a[NameOf(m)] = ClassRef(ClassOf(m))
              /\ classes[ClassOf(m)].name = NameOf(m)
        /\ \A e \in Range(descEnums[node]) : a[e].kind = "enum" /\ a[e].name = e

MaterializedOnce ==
    /\ \A m \in Nodes : built[m] <= 1
    /\ matPc = "done" =>
          /\ stack = <<>>
          /\ matResult = 1
          /\ \A m \in Nodes \ {1} : built[m] = 1
          /\ Cardinality(DOMAIN classes) = Cardinality(Nodes)
          /\ \A m \in Nodes : MirrorsNesting(m)

=============================================================================
